---- MODULE Spec2Model ----
(***************************************************************************)
(* Model of the xsuite LHC pipeline: the LHC/LHCBeam configuration         *)
(* (lhc_beam.py), the MAD-X loader and the stages (lhc_single_beam.py)     *)
(* and the matching / monitor helpers (utils/xsuite.py).                   *)
(***************************************************************************)
EXTENDS Integers, Sequences, FiniteSets, TLC

\* ------------------------------------------------------------------ bounds
MaxMods == 2          \* longest list of modifier references given to LHC(...)
MaxWrites == 2        \* how often one line artifact is written in a behaviour
MaxElems == 3         \* longest line handed to insert_monitors_at_pattern
MaxS == 2             \* largest longitudinal position in such a line
MaxInserts == 1       \* how often monitors are inserted into one line object
MaxDepth == 2         \* how deep disable_logging brackets are nested

\* --------------------------------------------------------------- constants
BeamIndices == {1, 2, 4}
Steps == {"raw", "nominal", "with_errors"}      \* class Step

VARIABLES
    \* --- LHC / LHCBeam dataclass fields and the files its constructor looks at
    beam,            \* LHCBeam.beam
    references,      \* the modifiers argument LHCBeam(...) was called with
    modifiers,       \* LHC.modifiers: "None", the references, or the resolved paths
    emittance_norm,  \* LHC.emittance_norm: a number or an (x, y) pair
    emittance,       \* LHC.emittance, <<>> until __post_init__ computes it
    rel_energy_spread, \* LHC.rel_energy_spread is set
    is_file,         \* the locations (under model_dir) that are existing files
    model_dir,       \* model_dir exists as a directory
    full_link,       \* model_dir / acc_models_link: "absent", "symlink", "other"
    pc,              \* position inside LHC.__post_init__
    error,           \* the exception that left the running function
    \* --- the cpymad session and create_line
    madx,            \* "none", "running", "exited"
    exits,           \* number of madx.exit() calls
    log,             \* the engine calls made so far, in order
    edit_open,       \* a seqedit scope is open in the engine
    used_after_exit, \* the session was used after madx.exit()
    lpc,             \* position inside create_line / load_sequence_and_optics
    loop_i,          \* index of the running for-loop of the loader
    \* --- the lines
    files,           \* line artifacts on disk: path -> number of times written
    line,            \* the xt.Line object the driver holds in memory
    \* --- insert_monitors_at_pattern
    pattern,         \* the pattern argument
    inserts,         \* the list `inserts` of placements handed to line.insert
    mpc,             \* "ready", "inserted" or "raised"
    \* --- the stages after create_line
    last,            \* the stage called last and how it ended
    loaded_from,     \* the artifact path the last stage loaded its line from
    vary,            \* the list `vary` match handed to line.match
    targets,         \* the list `targets` match handed to line.match
    outputs,         \* files other than line artifacts (and directories) written by the stages
    \* --- the logging module
    disable,         \* logging.root.manager.disable, the process-wide suppression threshold
    brackets         \* the open disable_logging() blocks, innermost first

cfgvars == <<beam, references, modifiers, emittance_norm, emittance, rel_energy_spread,
             is_file, model_dir, full_link, pc>>
madvars == <<madx, exits, log, edit_open, used_after_exit, lpc, loop_i>>
madvars_but_lpc == <<madx, exits, log, edit_open, used_after_exit, loop_i>>
linevars == <<files, line>>
monvars == <<pattern, inserts, mpc>>
stagevars == <<last, loaded_from, vary, targets, outputs>>
logvars == <<disable, brackets>>
othervars == <<monvars, stagevars, logvars>>
vars == <<cfgvars, madvars, linevars, monvars, stagevars, logvars, error>>

\* ------------------------------------------------------------------ paths
\* A path is [anchor, ref]: anchor "/" for a path that is absolute as given,
\* "" for a bare relative name, "cwd" for Path(ref).absolute() of a relative
\* name, "optics" for acc_models_link / "operation" / "optics" / name, and
\* "model_dir", "model_dir/optics" once joined to the model directory.
NoPath == [anchor |-> "", ref |-> ""]
None == << [anchor |-> "None", ref |-> ""] >>

\* the references a caller can give: a relative name or an absolute path
Refs == { [anchor |-> "", ref |-> "opt.madx"], [anchor |-> "/", ref |-> "/afs/opt_abs.madx"] }

IsAbsolute(path) == path.anchor \in {"/", "cwd"}

\* Path(modifier).absolute()
Absolute(path) == IF IsAbsolute(path) THEN path ELSE [anchor |-> "cwd", ref |-> path.ref]

\* left / path for a relative left operand: an absolute right operand replaces it
Join(left, path) == IF IsAbsolute(path) THEN path ELSE [anchor |-> left, ref |-> path.ref]

\* self.model_dir / modifier_path
UnderModelDir(path) ==
    CASE path.anchor = "" -> [anchor |-> "model_dir", ref |-> path.ref]
      [] path.anchor = "optics" -> [anchor |-> "model_dir/optics", ref |-> path.ref]
      [] OTHER -> path

\* the tuple `sources` of _find_modifiers
Sources(modifier) == << Absolute(modifier), modifier, Join("optics", modifier) >>

AllLocations == { UnderModelDir(Sources(r)[k]) : r \in Refs, k \in 1..3 }

NoError == [type |-> "none", modifier |-> NoPath, sources |-> <<>>, pattern |-> <<>>, at |-> ""]

\* (mutant of FirstExisting: the last existing source wins)
FirstExisting_last(sources, k) ==
    LET found == { j \in k..Len(sources) : UnderModelDir(sources[j]) \in is_file }
    IN IF found = {} THEN 0 ELSE CHOOSE j \in found : \A i \in found : i <= j

\* the first index from k on whose source is an existing file, 0 when none is
RECURSIVE FirstExisting(_, _)
FirstExisting(sources, k) ==
    IF k > Len(sources) THEN 0
    ELSE IF UnderModelDir(sources[k]) \in is_file THEN k
    ELSE FirstExisting(sources, k + 1)

\* the for-loop of _find_modifiers from reference i on: the list new_modifiers
\* and, when a reference has no existing source, the FileNotFoundError
RECURSIVE ResolveFrom(_, _, _)
ResolveFrom(refs, i, new_modifiers) ==
    IF i > Len(refs) THEN [ok |-> TRUE, new_modifiers |-> new_modifiers, error |-> NoError]
    ELSE LET sources == Sources(refs[i])
             k == FirstExisting(sources, 1)
         IN IF k = 0
            THEN [ok |-> FALSE, new_modifiers |-> new_modifiers,
                  error |-> [type |-> "FileNotFoundError", modifier |-> refs[i],
                             sources |-> sources, pattern |-> <<>>,
                             at |-> "_find_modifiers"]]
            ELSE ResolveFrom(refs, i + 1, Append(new_modifiers, sources[k]))

\* ------------------------------------------------------- LHC.__post_init__
RefLists == UNION { [1..n -> Refs] : n \in 0..MaxMods }
EmittanceNorms == { [form |-> "number", x |-> 2, y |-> 0],
                    [form |-> "pair", x |-> 2, y |-> 2],
                    [form |-> "pair", x |-> 2, y |-> 3] }

\* emittance_norm * PROTON_MASS_EV / energy, in units of PROTON_MASS_EV / energy
Physical(n) == n

Fail(at, type) == [NoError EXCEPT !.type = type, !.at = at]

\* self.model_dir.mkdir(exist_ok=True, parents=True)
post_init_mkdir ==
    /\ pc = "mkdir"
    /\ \E oserror \in BOOLEAN :
         IF oserror
         THEN /\ pc' = "raised"
              /\ error' = Fail("mkdir", "OSError")
              /\ UNCHANGED model_dir
         ELSE /\ model_dir' = TRUE
              /\ pc' = "_create_symlink"
              /\ UNCHANGED error
    /\ UNCHANGED <<beam, references, modifiers, emittance_norm, emittance, rel_energy_spread,
                   is_file, full_link, madvars, linevars, othervars>>

\* (mutant of create_symlink: a failing symlink_to is swallowed)
create_symlink_swallowed ==
    /\ pc = "_create_symlink"
    /\ LET unlinked == IF full_link = "symlink" THEN "absent" ELSE full_link
       IN /\ full_link' = IF unlinked = "absent" THEN "symlink" ELSE unlinked
          /\ pc' = "_find_modifiers"
          /\ UNCHANGED error
    /\ UNCHANGED <<beam, references, modifiers, emittance_norm, emittance, rel_energy_spread,
                   is_file, model_dir, madvars, linevars, othervars>>

create_symlink ==
    /\ pc = "_create_symlink"
    /\ LET unlinked == IF full_link = "symlink" THEN "absent" ELSE full_link
       IN \E oserror \in BOOLEAN :
            IF unlinked # "absent" \/ oserror
            THEN /\ full_link' = unlinked
                 /\ pc' = "raised"
                 /\ error' = Fail("_create_symlink",
                                  IF unlinked # "absent" THEN "FileExistsError" ELSE "OSError")
            ELSE /\ full_link' = "symlink"
                 /\ pc' = "_find_modifiers"
                 /\ UNCHANGED error
    /\ UNCHANGED <<beam, references, modifiers, emittance_norm, emittance, rel_energy_spread,
                   is_file, model_dir, madvars, linevars, othervars>>

find_modifiers ==
    /\ pc = "_find_modifiers"
    /\ IF modifiers = None
       THEN /\ modifiers' = <<>>
            /\ pc' = "derive"
            /\ UNCHANGED error
       ELSE LET r == ResolveFrom(modifiers, 1, <<>>)
            IN IF r.ok
               THEN /\ modifiers' = r.new_modifiers
                    /\ pc' = "derive"
                    /\ UNCHANGED error
               ELSE /\ pc' = "raised"
                    /\ error' = r.error
                    /\ UNCHANGED modifiers
    /\ UNCHANGED <<beam, references, emittance_norm, emittance, rel_energy_spread,
                   is_file, model_dir, full_link, madvars, linevars, othervars>>

\* the try / except TypeError of __post_init__ and rel_energy_spread
DerivedEmittance(norm) ==
    IF norm.form = "pair"
    THEN << Physical(norm.x), Physical(norm.y) >>
    ELSE << Physical(norm.x), Physical(norm.x) >> \o << Physical(norm.x), Physical(norm.x) >>

post_init_derive ==
    /\ pc = "derive"
    /\ emittance' = DerivedEmittance(emittance_norm)
    /\ rel_energy_spread' = TRUE
    /\ pc' = "done"
    /\ UNCHANGED <<beam, references, modifiers, emittance_norm, is_file, model_dir, full_link,
                   madvars, linevars, othervars, error>>

\* ------------------------------------------------------------ xt.Line
\* Element names are tuples of characters.
BpmName(d) == <<"b", "p", "m", ".", "b", d>>
MqName(d) == <<"m", "q", ".", "b", d>>
DorosName(d) == BpmName(d) \o <<"_", "d">>

MonitorSuffix == <<"_", "m", "o", "n", "i", "t", "o", "r">>

Element(name, s) == [name |-> name, s |-> s, kind |-> "element"]

\* a line object: its elements in order (line.element_names with their s) and
\* its element registry (line.env.elements)
NewLine(elements) ==
    [made |-> TRUE,
     elements |-> elements,
     registry |-> [n \in { elements[i].name : i \in 1..Len(elements) } |-> "element"],
     matched |-> FALSE,
     errors |-> FALSE,
     inserted |-> 0]

NoLine == [made |-> FALSE, elements |-> <<>>, registry |-> <<>>, matched |-> FALSE,
           errors |-> FALSE, inserted |-> 0]

\* the elements of the sequence of a beam, as far as the stages look at them
Machine(b) == LET d == IF b = 1 THEN "1" ELSE "2"
              IN << Element(MqName(d), 0), Element(BpmName(d), 1), Element(DorosName(d), 1) >>

\* ---------------------------------------------- re.match(..., IGNORECASE)
\* A pattern is a tuple of items: [t |-> "chars", cs |-> S] matches one
\* character of S, "dotstar" is .* and "end" is $.
Chars(cs) == [t |-> "chars", cs |-> cs]
Literal(word) == [i \in 1..Len(word) |-> Chars({word[i]})]
DotStar == [t |-> "dotstar", cs |-> {}]
End == [t |-> "end", cs |-> {}]

Lower(c) == CASE c = "B" -> "b" [] c = "P" -> "p" [] c = "M" -> "m"
              [] c = "Q" -> "q" [] c = "X" -> "x" [] c = "D" -> "d" [] OTHER -> c

\* (mutant of Matches: the match is case-sensitive)
RECURSIVE Matches_cased(_, _, _, _)
Matches_cased(pat, pi, name, si) ==
    IF pi > Len(pat) THEN TRUE
    ELSE CASE pat[pi].t = "chars" ->
                /\ si <= Len(name)
                /\ name[si] \in pat[pi].cs
                /\ Matches_cased(pat, pi + 1, name, si + 1)
           [] pat[pi].t = "dotstar" ->
                \E k \in si..(Len(name) + 1) : Matches_cased(pat, pi + 1, name, k)
           [] OTHER ->
                /\ si = Len(name) + 1
                /\ Matches_cased(pat, pi + 1, name, si)

\* re.match: the pattern from item pi on matches the name from character si on
RECURSIVE Matches(_, _, _, _)
Matches(pat, pi, name, si) ==
    IF pi > Len(pat) THEN TRUE
    ELSE CASE pat[pi].t = "chars" ->
                /\ si <= Len(name)
                /\ Lower(name[si]) \in { Lower(c) : c \in pat[pi].cs }
                /\ Matches(pat, pi + 1, name, si + 1)
           [] pat[pi].t = "dotstar" ->
                \E k \in si..(Len(name) + 1) : Matches(pat, pi + 1, name, k)
           [] OTHER ->
                /\ si = Len(name) + 1
                /\ Matches(pat, pi + 1, name, si)

PatternDefault == Literal(<<"B", "P", "M">>)                       \* "BPM"
PatternTbt == Literal(<<"B", "P", "M">>) \o <<DotStar>>
              \o <<Chars({"B"}), Chars({"1", "2"}), End>>          \* "BPM.*B[12]$"
PatternLower == Literal(<<"m", "q">>)                              \* "mq"
PatternNoMatch == Literal(<<"Q", "X">>)                            \* "QX"
Patterns == {PatternDefault, PatternTbt, PatternLower, PatternNoMatch}

\* --------------------------------------------- insert_monitors_at_pattern
\* selected_list: the names of the line that match, in line order
selected_list(l, pat) ==
    LET hit == SelectSeq(l.elements, LAMBDA e : Matches(pat, 1, e.name, 1))
    IN [i \in 1..Len(hit) |-> hit[i].name]

\* line.get_s_position(names): the position of the element of each name
get_s_position(l, names) ==
    [i \in 1..Len(names) |->
        l.elements[CHOOSE k \in 1..Len(l.elements) :
                      /\ l.elements[k].name = names[i]
                      /\ \A j \in 1..(k - 1) : l.elements[j].name # names[i]].s]

\* line.insert of one placement: the monitor goes in front of the first element
\* that is not upstream of its position
InsertOne(elements, place) ==
    LET at == { k \in 1..Len(elements) : elements[k].s >= place.at }
        k == IF at = {} THEN Len(elements) + 1 ELSE CHOOSE i \in at : \A j \in at : i <= j
    IN SubSeq(elements, 1, k - 1)
       \o << [name |-> place.name, s |-> place.at, kind |-> "monitor"] >>
       \o SubSeq(elements, k, Len(elements))

\* line.insert(inserts)
RECURSIVE Insert(_, _, _)
Insert(elements, places, i) ==
    IF i > Len(places) THEN elements
    ELSE Insert(InsertOne(elements, places[i]), places, i + 1)

\* line.env.elements[monitor_name] = monitor, for every placement
RECURSIVE Register(_, _, _)
Register(registry, places, i) ==
    IF i > Len(places) THEN registry
    ELSE Register((places[i].name :> "monitor") @@ registry, places, i + 1)

\* the whole function: [raised, line, inserts]
InsertMonitors(l, pat) ==
    LET selected == selected_list(l, pat)
        s_positions == get_s_position(l, selected)
        places == [i \in 1..Len(selected) |->
                     [name |-> selected[i] \o MonitorSuffix, at |-> s_positions[i]]]
    IN IF selected = <<>>
       THEN [raised |-> TRUE, line |-> l, inserts |-> <<>>]
       ELSE [raised |-> FALSE,
             line |-> [l EXCEPT !.registry = Register(l.registry, places, 1),
                                !.elements = Insert(l.elements, places, 1),
                                !.inserted = @ + 1],
             inserts |-> places]

insert_monitors_at_pattern ==
    /\ mpc = "ready"
    /\ line.made
    /\ line.inserted < MaxInserts
    /\ \E pat \in Patterns :
         LET r == InsertMonitors(line, pat)
         IN /\ pattern' = pat
            /\ line' = r.line
            /\ inserts' = r.inserts
            /\ mpc' = IF r.raised THEN "raised" ELSE "inserted"
            /\ error' = IF r.raised
                        THEN [NoError EXCEPT !.type = "ValueError", !.pattern = pat,
                                             !.at = "insert_monitors_at_pattern"]
                        ELSE NoError
    /\ UNCHANGED <<cfgvars, madvars, files, stagevars, logvars>>

\* ---------------------------------------------------------------- logging
NOTSET == 0
DEBUG == 10
INFO == 20
WARNING == 30
ERROR == 40
CRITICAL == 50
Levels == {NOTSET, DEBUG, INFO, WARNING, ERROR, CRITICAL}
RemainingLevels == Levels \ {NOTSET}

\* disable_logging(remaining_level): the threshold it sets before the body
\* (logging.disable(remaining_level-1)) and the one its finally clause sets
disable_logging(remaining_level) ==
    [enter |-> remaining_level - 1, exit |-> NOTSET]

\* `with disable_logging(remaining_level):` up to the yield
disable_logging_enter ==
    /\ pc = "done"
    /\ Len(brackets) < MaxDepth
    /\ \E remaining_level \in RemainingLevels :
         /\ disable' = disable_logging(remaining_level).enter
         /\ brackets' = << [remaining_level |-> remaining_level, before |-> disable] >>
                         \o brackets
    /\ error' = NoError
    /\ UNCHANGED <<cfgvars, madvars, linevars, monvars, stagevars>>

\* the body of the innermost block ends, by returning or by raising, and the
\* finally clause runs
disable_logging_exit ==
    /\ pc = "done"
    /\ brackets # <<>>
    /\ \E raises \in BOOLEAN :
         error' = IF raises THEN Fail("disable_logging", "Exception") ELSE NoError
    /\ disable' = disable_logging(Head(brackets).remaining_level).exit
    /\ brackets' = Tail(brackets)
    /\ UNCHANGED <<cfgvars, madvars, linevars, monvars, stagevars>>

\* ------------------------------------------------------ LHCBeam accessors
get_sequence_file_for_beam(b) == IF b = 4 THEN "lhcb4.seq" ELSE "lhc.seq"

get_sequence_for_beam(b) == IF b = 4 THEN "lhcb2" ELSE IF b = 1 THEN "lhcb1" ELSE "lhcb2"

cycling_element(b) == IF b = 1 THEN "MSIA.EXIT.B1" ELSE "MKI.A5R8.B2"

\* (mutant of other_beam: beam 4 is not taken as a beam-2 machine)
other_beam_only2(b) == IF b = 2 THEN 1 ELSE 2

other_beam(b) == IF b \in {2, 4} THEN 1 ELSE 2

bv(b) == IF b = 2 THEN -1 ELSE 1

\* the path of the line artifact of a stage: one file per stage and beam index
get_line_path(b, step) == [stage |-> step, beam |-> b]

ArtifactPaths == { get_line_path(b, s) : b \in BeamIndices, s \in Steps }

\* ------------------------------------------- load_sequence_and_optics
\* One engine call: [cmd, sequence, start, bv, file]
Command(cmd, sequence, start, sign, file) ==
    [cmd |-> cmd, sequence |-> sequence, start |-> start, bv |-> sign, file |-> file]

CallFile(file) == Command("call", "", "", 0, file)

\* the (sequence, bv) pairs of the beam set-up loop
BeamPairs(b) == << <<get_sequence_for_beam(b), bv(b)>>,
                   <<get_sequence_for_beam(other_beam(b)), -bv(b)>> >>

\* A call into the running engine: it is issued, and either returns, and the
\* function goes on at `next`, or raises, and the exception leaves the function.
Engine(here, command, next, next_i, scope) ==
    /\ lpc = here
    /\ log' = Append(log, command)
    /\ used_after_exit' = (used_after_exit \/ madx = "exited")
    /\ \E raises \in BOOLEAN :
         IF raises
         THEN /\ lpc' = "raised"
              /\ error' = Fail(command.cmd, "EngineError")
              /\ UNCHANGED <<edit_open, loop_i>>
         ELSE /\ lpc' = next
              /\ loop_i' = next_i
              /\ edit_open' = scope
              /\ UNCHANGED error
    /\ UNCHANGED <<cfgvars, madx, exits, linevars, othervars>>

NoArtifact == [stage |-> "", beam |-> 0]

\* the stage called last: how it ended, how its solve ended, and what match
\* returned to it
Called(stage, result, solve, chroma, returned) ==
    [stage |-> stage, result |-> result, solve |-> solve, chroma |-> chroma,
     returned |-> returned]

\* create_line is entered and load_sequence_and_optics starts a Madx session
create_line_start ==
    /\ pc = "done"
    /\ lpc \in {"idle", "returned", "raised"}
    /\ files[get_line_path(beam, "raw")] < MaxWrites
    /\ madx' = "running"
    /\ exits' = 0
    /\ log' = <<>>
    /\ edit_open' = FALSE
    /\ used_after_exit' = FALSE
    /\ lpc' = "call_sequence"
    /\ loop_i' = 1
    /\ error' = NoError
    /\ last' = Called("create_line", "", "", FALSE, "None")
    /\ loaded_from' = NoArtifact
    /\ vary' = <<>>
    /\ targets' = <<>>
    /\ UNCHANGED <<cfgvars, linevars, monvars, outputs, logvars>>

call_sequence ==
    /\ pc = "done"
    /\ Engine("call_sequence",
           CallFile([anchor |-> "acc-models-lhc", ref |-> get_sequence_file_for_beam(beam)]),
           "seqedit", 1, edit_open)

seqedit ==
    /\ pc = "done"
    /\ Engine("seqedit", Command("seqedit", get_sequence_for_beam(beam), "", 0, NoPath),
           "flatten", 1, TRUE)

flatten ==
    /\ pc = "done"
    /\ Engine("flatten", Command("flatten", "", "", 0, NoPath), "cycle", 1, edit_open)

cycle ==
    /\ pc = "done"
    /\ Engine("cycle", Command("cycle", "", cycling_element(beam), 0, NoPath),
           "endedit", 1, edit_open)

endedit ==
    /\ pc = "done"
    /\ Engine("endedit", Command("endedit", "", "", 0, NoPath), "beam", 1, FALSE)

beam_setup ==
    /\ loop_i <= Len(BeamPairs(beam))
    /\ Engine("beam",
              Command("beam", BeamPairs(beam)[loop_i][1], "", BeamPairs(beam)[loop_i][2], NoPath),
              IF loop_i < Len(BeamPairs(beam)) THEN "beam"
              ELSE IF Len(modifiers) > 0 THEN "modifiers" ELSE "remove_symmetry",
              IF loop_i < Len(BeamPairs(beam)) THEN loop_i + 1 ELSE 1,
              edit_open)

\* (mutant of call_modifier: the modifiers are called last first)
call_modifier_reversed ==
    /\ loop_i <= Len(modifiers)
    /\ Engine("modifiers", CallFile(modifiers[Len(modifiers) + 1 - loop_i]),
              IF loop_i < Len(modifiers) THEN "modifiers" ELSE "remove_symmetry",
              IF loop_i < Len(modifiers) THEN loop_i + 1 ELSE 1,
              edit_open)

call_modifier ==
    /\ loop_i <= Len(modifiers)
    /\ Engine("modifiers", CallFile(modifiers[loop_i]),
              IF loop_i < Len(modifiers) THEN "modifiers" ELSE "remove_symmetry",
              IF loop_i < Len(modifiers) THEN loop_i + 1 ELSE 1,
              edit_open)

remove_symmetry ==
    /\ pc = "done"
    /\ Engine("remove_symmetry",
           CallFile([anchor |-> "acc-models-lhc/toolkit", ref |-> "remove-triplet-symmetry-knob.madx"]),
           "from_madx_sequence", 1, edit_open)

\* ------------------------------------------------------------ create_line
\* with disable_logging(): xt.Line.from_madx_sequence(madx.sequence[beam.sequence], ...)
from_madx_sequence ==
    /\ lpc = "from_madx_sequence"
    /\ disable' = disable_logging(WARNING).exit
    /\ used_after_exit' = (used_after_exit \/ madx = "exited")
    /\ \E raises \in BOOLEAN :
         IF raises
         THEN /\ lpc' = "raised"
              /\ error' = Fail("from_madx_sequence", "Exception")
         ELSE /\ lpc' = "to_json"
              /\ UNCHANGED error
    /\ UNCHANGED <<cfgvars, madx, exits, log, edit_open, loop_i, linevars, monvars, stagevars,
                   brackets>>

\* twiss_default, particle_ref and line.to_json(beam.get_line_path(Step.raw))
to_json_raw ==
    /\ lpc = "to_json"
    /\ \E raises \in BOOLEAN :
         IF raises
         THEN /\ lpc' = "raised"
              /\ error' = Fail("to_json", "OSError")
              /\ UNCHANGED files
         ELSE /\ lpc' = "exit"
              /\ files' = [files EXCEPT ![get_line_path(beam, "raw")] = @ + 1]
              /\ UNCHANGED error
    /\ UNCHANGED <<cfgvars, madvars_but_lpc, line, othervars>>

\* madx.exit() and return line: the caller now holds the line made from the sequence
madx_exit ==
    /\ lpc = "exit"
    /\ madx' = "exited"
    /\ exits' = exits + 1
    /\ lpc' = "returned"
    /\ line' = NewLine(Machine(beam))
    /\ UNCHANGED <<cfgvars, log, edit_open, used_after_exit, loop_i, files, othervars, error>>

\* ------------------------------------------------------------------ Spec
NoSession ==
    /\ madx = "none"
    /\ exits = 0
    /\ log = <<>>
    /\ edit_open = FALSE
    /\ used_after_exit = FALSE
    /\ lpc = "idle"
    /\ loop_i = 1

NoMonitorCall ==
    /\ pattern = <<>>
    /\ inserts = <<>>
    /\ mpc = "ready"

\* nothing has called logging.disable and no disable_logging block is open
NoSuppression ==
    /\ disable = NOTSET
    /\ brackets = <<>>

NoStage ==
    /\ last = Called("", "", "", FALSE, "None")
    /\ loaded_from = NoArtifact
    /\ vary = <<>>
    /\ targets = <<>>
    /\ outputs = {}

Init ==
    /\ beam \in BeamIndices
    /\ references \in {None} \cup RefLists
    /\ modifiers = references
    /\ emittance_norm \in EmittanceNorms
    /\ emittance = <<>>
    /\ rel_energy_spread = FALSE
    /\ is_file \in SUBSET AllLocations
    /\ model_dir \in BOOLEAN
    /\ full_link \in {"absent", "symlink", "other"}
    /\ pc = "mkdir"
    /\ error = NoError
    /\ NoSession
    /\ files = [p \in ArtifactPaths |-> 0]
    /\ line = NoLine
    /\ NoMonitorCall
    /\ NoStage
    /\ NoSuppression

Construct == post_init_mkdir \/ create_symlink \/ find_modifiers \/ post_init_derive

CreateLine ==
    \/ create_line_start
    \/ call_sequence
    \/ seqedit
    \/ flatten
    \/ cycle
    \/ endedit
    \/ beam_setup
    \/ call_modifier
    \/ remove_symmetry
    \/ from_madx_sequence
    \/ to_json_raw
    \/ madx_exit

Next == Construct \/ CreateLine

Spec == Init /\ [][Next]_vars

\* ---------------------------------------- insert_monitors_at_pattern alone
NamePool == { BpmName("1"), <<"B", "P", "M", ".", "B", "2">>, DorosName("1"),
              MqName("1"), <<"x">> \o BpmName("1") }

\* lines of distinct names at non-decreasing positions
MonitorLines ==
    UNION { { e \in [1..n -> [name : NamePool, s : 0..MaxS, kind : {"element"}]] :
                /\ \A i, j \in 1..n : i < j => (e[i].name # e[j].name /\ e[i].s <= e[j].s) }
            : n \in 0..MaxElems }

\* a constructed configuration with one modifier found in the optics directory
Constructed ==
    /\ references = << [anchor |-> "", ref |-> "opt.madx"] >>
    /\ modifiers = << [anchor |-> "optics", ref |-> "opt.madx"] >>
    /\ emittance_norm = [form |-> "pair", x |-> 2, y |-> 2]
    /\ emittance = DerivedEmittance(emittance_norm)
    /\ rel_energy_spread = TRUE
    /\ is_file = { [anchor |-> "model_dir/optics", ref |-> "opt.madx"] }
    /\ model_dir = TRUE
    /\ full_link = "symlink"
    /\ pc = "done"
    /\ error = NoError

InitMonitors ==
    /\ beam = 1
    /\ Constructed
    /\ NoSession
    /\ files = [p \in ArtifactPaths |-> 0]
    /\ \E e \in MonitorLines : line = NewLine(e)
    /\ NoMonitorCall
    /\ NoStage
    /\ NoSuppression

NextMonitors == insert_monitors_at_pattern

SpecMonitors == InitMonitors /\ [][NextMonitors]_vars

\* ------------------------------------------------------------------ match
MatchStep == "1e-8"
MatchTolerance == "1e-10"

\* xt.Vary(name=<knob><plane>.b<beam>_op, step=step)
Vary(knob, plane, b) ==
    [kind |-> "Vary", knob |-> knob, planes |-> <<plane>>, beam |-> b, step |-> MatchStep]

\* the generator expression appended to vary as one item
VaryGenerator(knob, b) ==
    [kind |-> "generator", knob |-> knob, planes |-> <<"x", "y">>, beam |-> b, step |-> MatchStep]

TargetSet(of) == [kind |-> "TargetSet", of |-> of, tol |-> MatchTolerance]

MatchVary(b, chroma) ==
    << Vary("dq", "x", b), Vary("dq", "y", b) >>
    \o (IF chroma THEN << VaryGenerator("dqp", b) >> ELSE <<>>)

MatchTargets(chroma) ==
    << TargetSet("q") >> \o (IF chroma THEN << TargetSet("dq") >> ELSE <<>>)

\* how line.match(...) / opt.solve() can end
Solves == {"within_tol", "not_within_tol", "not_within_tol_raised"}

\* match(beam, line, chroma=chroma): what it hands to the solver, whether the
\* solve raised, the line it worked on, the logging threshold it leaves and
\* what it returns (it has no return)
Match(b, l, chroma, solve) ==
    [vary |-> MatchVary(b, chroma),
     targets |-> MatchTargets(chroma),
     raised |-> (solve = "not_within_tol_raised"),
     line |-> [l EXCEPT !.matched = (solve = "within_tol")],
     disable |-> disable_logging(WARNING).exit,
     returned |-> "None"]

\* ------------------------------------------------------------- the stages
StageReady == pc = "done" /\ lpc \in {"idle", "returned", "raised"}

\* xt.Line.from_json(path) of an artifact written by a stage
Loaded(path) ==
    [NewLine(Machine(path.beam)) EXCEPT !.matched = (path.stage # "raw"),
                                        !.errors = (path.stage = "with_errors")]

\* the frame of an earlier create_line is gone when the next stage is called
NoFrame ==
    /\ madx' = "none"
    /\ exits' = 0
    /\ log' = <<>>
    /\ edit_open' = FALSE
    /\ used_after_exit' = FALSE
    /\ lpc' = "idle"
    /\ loop_i' = 1

\* a stage that raised: nothing but the record of the call changes
Raised(stage, at, type, solve) ==
    /\ last' = Called(stage, "raised", solve, FALSE, "None")
    /\ error' = Fail(at, type)

\* nominal and install_errors: load the line of stage src unless one is given,
\* (set the coupling knobs,) match, write the line of stage dst
MatchStage(stage, src, dst, set_errors) ==
    /\ StageReady
    /\ files[get_line_path(beam, dst)] < MaxWrites
    /\ \E given \in BOOLEAN :
         /\ given => line.made
         /\ LET path == get_line_path(beam, src)
                l0 == IF given THEN line ELSE Loaded(path)
                l1 == IF set_errors THEN [l0 EXCEPT !.errors = TRUE] ELSE l0
            IN IF ~given /\ files[path] = 0
               THEN /\ Raised(stage, "from_json", "FileNotFoundError", "")
                    /\ loaded_from' = NoArtifact
                    /\ vary' = <<>>
                    /\ targets' = <<>>
                    /\ UNCHANGED <<files, line, disable>>
               ELSE \E solve \in Solves :
                    LET m == Match(beam, l1, FALSE, solve)
                    IN /\ loaded_from' = IF given THEN NoArtifact ELSE path
                       /\ vary' = m.vary
                       /\ targets' = m.targets
                       /\ line' = IF given THEN m.line ELSE line
                       /\ disable' = m.disable
                       /\ IF m.raised
                          THEN /\ Raised(stage, "match", "RuntimeError", solve)
                               /\ UNCHANGED files
                          ELSE \E oserror \in BOOLEAN :
                               IF oserror
                               THEN /\ Raised(stage, "to_json", "OSError", solve)
                                    /\ UNCHANGED files
                               ELSE /\ files' = [files EXCEPT ![get_line_path(beam, dst)] = @ + 1]
                                    /\ last' = Called(stage, "returned", solve, FALSE, m.returned)
                                    /\ error' = NoError
    /\ NoFrame
    /\ UNCHANGED <<cfgvars, monvars, outputs, brackets>>

\* (mutant of nominal: the matched line is written over the raw artifact)
nominal_writes_raw ==
    /\ pc = "done"
    /\ MatchStage("nominal", "raw", "raw", FALSE)

nominal ==
    /\ pc = "done"
    /\ MatchStage("nominal", "raw", "nominal", FALSE)

\* (mutant of install_errors: the line with errors is written over the nominal artifact)
install_errors_writes_nominal ==
    /\ pc = "done"
    /\ MatchStage("install_errors", "nominal", "nominal", TRUE)

install_errors ==
    /\ pc = "done"
    /\ MatchStage("install_errors", "nominal", "with_errors", TRUE)

\* match called on the line in memory, with or without chroma
match ==
    /\ StageReady
    /\ line.made
    /\ last.stage = ""
    /\ \E chroma \in BOOLEAN, solve \in Solves :
         LET m == Match(beam, line, chroma, solve)
         IN /\ vary' = m.vary
            /\ targets' = m.targets
            /\ line' = m.line
            /\ disable' = m.disable
            /\ last' = Called("match", IF m.raised THEN "raised" ELSE "returned", solve,
                              chroma, m.returned)
            /\ error' = IF m.raised THEN Fail("match", "RuntimeError") ELSE NoError
    /\ loaded_from' = NoArtifact
    /\ NoFrame
    /\ UNCHANGED <<cfgvars, monvars, files, outputs, brackets>>

create_turn_by_turn_data ==
    /\ StageReady
    /\ \E given \in BOOLEAN :
         /\ given => (line.made /\ line.inserted < MaxInserts)
         /\ LET path == get_line_path(beam, "with_errors")
                l0 == IF given THEN line ELSE Loaded(path)
                r == InsertMonitors(l0, PatternTbt)
            IN IF ~given /\ files[path] = 0
               THEN /\ Raised("create_turn_by_turn_data", "from_json", "FileNotFoundError", "")
                    /\ loaded_from' = NoArtifact
                    /\ UNCHANGED <<line, outputs>>
               ELSE /\ loaded_from' = IF given THEN NoArtifact ELSE path
                    /\ line' = IF given THEN r.line ELSE line
                    /\ IF r.raised
                       THEN /\ Raised("create_turn_by_turn_data", "insert_monitors_at_pattern",
                                      "ValueError", "")
                            /\ UNCHANGED outputs
                       ELSE \E twiss_raises \in BOOLEAN :
                            IF twiss_raises
                            THEN /\ Raised("create_turn_by_turn_data", "twiss", "Exception", "")
                                 /\ UNCHANGED outputs
                            ELSE /\ outputs' = outputs \cup {"sdds"}
                                 /\ last' = Called("create_turn_by_turn_data", "returned", "",
                                                   FALSE, "None")
                                 /\ error' = NoError
    /\ vary' = <<>>
    /\ targets' = <<>>
    /\ NoFrame
    /\ UNCHANGED <<cfgvars, monvars, files, logvars>>

create_omc3_model_dir ==
    /\ StageReady
    /\ \E given \in BOOLEAN :
         /\ given => line.made
         /\ LET path == get_line_path(beam, "nominal")
            IN IF ~given /\ files[path] = 0
               THEN /\ Raised("create_omc3_model_dir", "from_json", "FileNotFoundError", "")
                    /\ loaded_from' = NoArtifact
                    /\ UNCHANGED outputs
               ELSE /\ loaded_from' = IF given THEN NoArtifact ELSE path
                    /\ \E twiss_raises \in BOOLEAN :
                         IF twiss_raises
                         THEN /\ Raised("create_omc3_model_dir", "twiss", "Exception", "")
                              /\ UNCHANGED outputs
                         ELSE /\ outputs' = outputs \cup {"omc3_dir/twiss_elements.dat",
                                                          "omc3_dir/twiss.dat",
                                                          "omc3_dir/modifiers.madx",
                                                          "omc3_dir/acc-models-lhc"}
                              /\ last' = Called("create_omc3_model_dir", "returned", "",
                                                FALSE, "None")
                              /\ error' = NoError
    /\ vary' = <<>>
    /\ targets' = <<>>
    /\ NoFrame
    /\ UNCHANGED <<cfgvars, monvars, linevars, logvars>>

InitStages ==
    /\ beam = 1
    /\ Constructed
    /\ NoSession
    /\ files = [p \in ArtifactPaths |-> 0]
    /\ line = NoLine
    /\ NoMonitorCall
    /\ NoStage
    /\ NoSuppression

NextStages ==
    \/ CreateLine
    \/ nominal
    \/ install_errors
    \/ create_turn_by_turn_data
    \/ create_omc3_model_dir

SpecStages == InitStages /\ [][NextStages]_vars

\* ------------------------------------------------------------ match alone
InitMatch ==
    /\ beam \in BeamIndices
    /\ Constructed
    /\ NoSession
    /\ files = [p \in ArtifactPaths |-> 0]
    /\ \E e \in MonitorLines, matched \in BOOLEAN, errors \in BOOLEAN :
         line = [NewLine(e) EXCEPT !.matched = matched, !.errors = errors]
    /\ NoMonitorCall
    /\ NoStage
    /\ NoSuppression

NextMatch == match

SpecMatch == InitMatch /\ [][NextMatch]_vars

\* ------------------------------------------------- disable_logging alone
\* a caller of disable_logging may have called logging.disable(level) before
InitLogging ==
    /\ beam = 1
    /\ Constructed
    /\ NoSession
    /\ files = [p \in ArtifactPaths |-> 0]
    /\ line = NoLine
    /\ NoMonitorCall
    /\ NoStage
    /\ disable \in Levels
    /\ brackets = <<>>

NextLogging == disable_logging_enter \/ disable_logging_exit

SpecLogging == InitLogging /\ [][NextLogging]_vars

\* ---------------------------------------------------------------- claims
C1_IsLocated(path) == UnderModelDir(path) \in is_file

\* C1: every reference is resolved to the first of its three candidate
\* locations (absolute path, relative to the model directory, acc-models link /
\* operation / optics) that is an existing file; when a reference has none,
\* construction fails with a not-found error naming the reference and the
\* three locations, and the modifier list is left as it was given.
C1_FirstMatchWins ==
    /\ (pc \in {"derive", "done"} /\ references # None) =>
          /\ Len(modifiers) = Len(references)
          /\ \A i \in 1..Len(references) :
                \E k \in 1..3 :
                  /\ modifiers[i] = Sources(references[i])[k]
                  /\ C1_IsLocated(Sources(references[i])[k])
                  /\ \A j \in 1..(k - 1) : ~C1_IsLocated(Sources(references[i])[j])
    /\ (pc = "raised" /\ error.at = "_find_modifiers") =>
          /\ error.type = "FileNotFoundError"
          /\ \E i \in 1..Len(references) : error.modifier = references[i]
          /\ Len(error.sources) = 3
          /\ error.sources = << Absolute(error.modifier), error.modifier,
                                Join("optics", error.modifier) >>
          /\ \A k \in 1..3 : ~C1_IsLocated(error.sources[k])
          /\ modifiers = references
    /\ (references # None /\ \E i \in 1..Len(references) :
                               \A k \in 1..3 : ~C1_IsLocated(Sources(references[i])[k]))
          => pc \notin {"derive", "done"}

\* a relative reference all three locations of which exist is recorded at the
\* first, next to an absolute reference
C1_Witness ==
    /\ pc = "done"
    /\ Len(modifiers) = 2
    /\ modifiers[1].anchor = "cwd"
    /\ C1_IsLocated(references[1])
    /\ C1_IsLocated(Join("optics", references[1]))
    /\ modifiers[2].anchor = "/"

\* C2: the constructor ensures the model directory, then makes the link,
\* then resolves the modifiers, then computes the derived values; when the
\* link or the resolution fails the derived values are never computed, no
\* object is returned and no engine session is started from it.
C2_OrderedFailFast ==
    /\ pc \in {"_create_symlink", "_find_modifiers", "derive", "done"} => model_dir
    /\ pc \in {"_find_modifiers", "derive", "done"} => full_link = "symlink"
    /\ pc \in {"derive", "done"} =>
          /\ modifiers # None
          /\ \A i \in 1..Len(modifiers) : C1_IsLocated(modifiers[i])
    /\ (emittance # <<>> \/ rel_energy_spread) => pc = "done"
    /\ pc = "raised" =>
          /\ emittance = <<>>
          /\ ~rel_energy_spread
          /\ madx = "none"
          /\ lpc = "idle"
    /\ madx # "none" => pc = "done"

\* the resolution failed after the directory and the link were made
C2_Witness ==
    /\ pc = "raised"
    /\ error.at = "_find_modifiers"
    /\ model_dir
    /\ full_link = "symlink"
    /\ emittance = <<>>

\* what C3 looks at in an engine call: the command, the file called and the
\* element cycled at
C3_Tag(command) == [cmd |-> command.cmd, file |-> command.file, start |-> command.start]

C3_CallTag(anchor, name) == [cmd |-> "call", file |-> [anchor |-> anchor, ref |-> name], start |-> ""]

C3_PlainTag(cmd, start) == [cmd |-> cmd, file |-> NoPath, start |-> start]

\* the order of calls C3 states, for the configuration at hand
C3_Order ==
    << C3_CallTag("acc-models-lhc", IF beam = 4 THEN "lhcb4.seq" ELSE "lhc.seq"),
       C3_PlainTag("seqedit", ""),
       C3_PlainTag("cycle", IF beam = 1 THEN "MSIA.EXIT.B1" ELSE "MKI.A5R8.B2"),
       C3_PlainTag("endedit", ""),
       C3_PlainTag("beam", ""),
       C3_PlainTag("beam", "") >>
    \o [i \in 1..Len(modifiers) |-> [cmd |-> "call", file |-> modifiers[i], start |-> ""]]
    \o << C3_CallTag("acc-models-lhc/toolkit", "remove-triplet-symmetry-knob.madx") >>

\* the calls of the log other than flatten, which C3 does not list
C3_Calls == LET kept == SelectSeq(log, LAMBDA c : c.cmd # "flatten")
            IN [i \in 1..Len(kept) |-> C3_Tag(kept[i])]

C3_IsPrefix(s, t) == Len(s) <= Len(t) /\ \A i \in 1..Len(s) : s[i] = t[i]

\* C3: the loader calls the engine in the order base sequence, seqedit,
\* cycle, endedit, two beam declarations, the resolved modifiers in their
\* order, the symmetry removal; a run that gets through makes all of them.
C3_StrictOrder ==
    lpc # "idle" =>
      /\ C3_IsPrefix(C3_Calls, C3_Order)
      /\ lpc \in {"from_madx_sequence", "to_json", "exit", "returned"} => C3_Calls = C3_Order
      /\ \A i \in 1..Len(log) :
            /\ (log[i].cmd = "call" /\ \E m \in 1..Len(modifiers) : log[i].file = modifiers[m])
                 => Cardinality({ j \in 1..(i - 1) : log[j].cmd = "beam" }) = 2
            /\ log[i].file.anchor = "acc-models-lhc/toolkit" => i = Len(log)

\* a complete run with two different modifiers
C3_Witness ==
    /\ lpc = "returned"
    /\ Len(modifiers) = 2
    /\ modifiers[1] # modifiers[2]
    /\ Len(log) = 10

\* C4 as claimed: whenever control has left the loader, by return or by an
\* exception, the edit scope is closed.
C4_EditScopeClosed ==
    lpc \in {"raised", "from_madx_sequence", "to_json", "exit", "returned"} => ~edit_open

\* C5 as claimed: when create_line is left after the loader returned, by
\* return or because the extraction or the write failed, the session was
\* terminated exactly once and not used afterwards.
C5_SessionReleased ==
    (lpc = "returned" \/ (lpc = "raised" /\ error.at \in {"from_madx_sequence", "to_json"}))
      => (madx = "exited" /\ exits = 1 /\ ~used_after_exit)

\* what C6 calls a match: for a pattern of plain characters, the pattern is a
\* prefix of the name up to case; for the other patterns, re.match
C6_IsPlain(pat) == \A i \in 1..Len(pat) : pat[i].t = "chars" /\ Cardinality(pat[i].cs) = 1

C6_ClaimMatch(pat, name) ==
    IF C6_IsPlain(pat)
    THEN /\ Len(pat) <= Len(name)
         /\ \A i \in 1..Len(pat) : \E c \in pat[i].cs : Lower(c) = Lower(name[i])
    ELSE Matches(pat, 1, name, 1)

C6_Monitors(registry) == { n \in DOMAIN registry : registry[n] = "monitor" }

\* C6: a call on a line with N matching element names registers exactly N
\* monitors, named <element>_monitor and placed at the position of their
\* element; with N = 0 the call raises an error naming the pattern and leaves
\* the line and its registry as they were.
C6_MonitorsAtPattern ==
    [][ (mpc = "ready" /\ mpc' # "ready") =>
          LET sel == SelectSeq(line.elements, LAMBDA e : C6_ClaimMatch(pattern', e.name))
              N == Len(sel)
              named == { sel[i].name \o MonitorSuffix : i \in 1..N }
          IN /\ (N = 0) <=> (mpc' = "raised")
             /\ N = 0 => /\ line' = line
                         /\ error'.type = "ValueError"
                         /\ error'.pattern = pattern'
             /\ N > 0 =>
                  /\ Len(inserts') = N
                  /\ Cardinality(named) = N
                  /\ C6_Monitors(line'.registry) = C6_Monitors(line.registry) \cup named
                  /\ \A n \in DOMAIN line.registry \ named : line'.registry[n] = line.registry[n]
                  /\ \A i \in 1..N :
                        /\ inserts'[i] = [name |-> sel[i].name \o MonitorSuffix, at |-> sel[i].s]
                        /\ \E k \in 1..Len(line'.elements) :
                              line'.elements[k] = [name |-> sel[i].name \o MonitorSuffix,
                                                    s |-> sel[i].s, kind |-> "monitor"]
                  /\ Len(line'.elements) = Len(line.elements) + N
                  /\ \A j, k \in 1..Len(line'.elements) :
                        j < k => line'.elements[j].s <= line'.elements[k].s
      ]_vars

\* two monitors were inserted for "BPM.*B[12]$" into a line of three elements,
\* one of them with an upper-case name and one not matching
C6_Witness ==
    /\ mpc = "inserted"
    /\ pattern = PatternTbt
    /\ Len(inserts) = 2
    /\ Len(line.elements) = 5
    /\ \E i \in 1..2 : inserts[i].name = <<"B", "P", "M", ".", "B", "2">> \o MonitorSuffix
    /\ inserts[1].at # inserts[2].at

\* one vary-parameter as C7 describes it: a named knob of the beam with the step
C7_Knob(knob, plane) ==
    [kind |-> "Vary", knob |-> knob, planes |-> <<plane>>, beam |-> beam, step |-> MatchStep]

\* C7 as claimed: with chroma the solver gets the four knobs dqx, dqy, dqpx,
\* dqpy and two target sets; without chroma the two tune knobs and one target set.
C7_VaryParameters ==
    last.stage = "match" =>
      IF last.chroma
      THEN /\ vary = << C7_Knob("dq", "x"), C7_Knob("dq", "y"),
                        C7_Knob("dqp", "x"), C7_Knob("dqp", "y") >>
           /\ targets = << TargetSet("q"), TargetSet("dq") >>
      ELSE /\ vary = << C7_Knob("dq", "x"), C7_Knob("dq", "y") >>
           /\ targets = << TargetSet("q") >>

\* C8 as claimed: when the solve of nominal or install_errors does not reach
\* the tolerance, match does not raise, the stage goes on to write its
\* artifact, and match tells the stage whether the tolerance was reached.
C8_NonConvergenceReported ==
    (last.stage \in {"nominal", "install_errors"}
       /\ last.solve \in {"not_within_tol", "not_within_tol_raised"}) =>
      /\ error.at # "match"
      /\ (last.result = "returned" \/ error.at = "to_json")
      /\ last.returned \in {"within_tol", "not_within_tol"}

C9_Path(stage) == [stage |-> stage, beam |-> beam]

\* C9: once create_line has returned the raw artifact exists, once nominal
\* has returned the nominal artifact exists, each at the path of its stage name
\* and the beam index; install_errors and create_omc3_model_dir called without
\* a line load from that nominal path, and fail to load only when it is absent.
C9_ArtifactLifecycle ==
    /\ last.stage = "create_line" /\ lpc = "returned" => files[C9_Path("raw")] > 0
    /\ (last.stage = "nominal" /\ last.result = "returned") => files[C9_Path("nominal")] > 0
    /\ (last.stage = "nominal" /\ last.result = "returned" /\ line.made)
         => (files[C9_Path("raw")] > 0 /\ files[C9_Path("nominal")] > 0)
    /\ last.stage \in {"install_errors", "create_omc3_model_dir"} =>
         /\ loaded_from # NoArtifact => (loaded_from = C9_Path("nominal") /\ files[loaded_from] > 0)
         /\ error.at = "from_json" => files[C9_Path("nominal")] = 0
    /\ \A p \in ArtifactPaths : p.beam # beam => files[p] = 0

\* create_line and nominal returned, and install_errors, called without a
\* line, loaded the nominal artifact and wrote its own
C9_Witness ==
    /\ line.made
    /\ last.stage = "install_errors"
    /\ last.result = "returned"
    /\ loaded_from = C9_Path("nominal")
    /\ files[C9_Path("raw")] = 1
    /\ files[C9_Path("nominal")] = 1
    /\ files[C9_Path("with_errors")] = 1

\* the artifact a stage may write
C10_Owns(stage) ==
    CASE stage = "create_line" -> "raw"
      [] stage = "nominal" -> "nominal"
      [] stage = "install_errors" -> "with_errors"
      [] OTHER -> "none"

\* C10: a step of a stage never removes a line artifact, and the only
\* artifact it writes is the one of its own stage, for the beam at hand.
C10_StagesOwnTheirArtifact ==
    [][ \A p \in ArtifactPaths :
          /\ files[p] > 0 => files'[p] > 0
          /\ files'[p] # files[p] =>
                /\ files'[p] = files[p] + 1
                /\ p = [stage |-> C10_Owns(last'.stage), beam |-> beam]
      ]_vars

\* every stage has run: the raw artifact was written twice, the other two
\* once, and tracking and the export wrote their files
C10_Witness ==
    /\ files[C9_Path("raw")] = 2
    /\ files[C9_Path("nominal")] = 1
    /\ files[C9_Path("with_errors")] = 1
    /\ "sdds" \in outputs
    /\ "omc3_dir/twiss.dat" \in outputs
    /\ last.stage = "create_turn_by_turn_data"

\* C11: when a disable_logging block is left, by return or by exception, the
\* suppression threshold is again the one that was set before the block was
\* entered, also for nested blocks and when suppression was active before.
C11_ThresholdRestored ==
    [][ (brackets # <<>> /\ brackets' = Tail(brackets))
        => disable' = Head(brackets).before ]_vars

\* the beam declarations among the engine calls made so far
C12_Beams == SelectSeq(log, LAMBDA c : c.cmd = "beam")

\* the declaration C12 states for the k-th of the two, for the beam at hand
C12_Declared(k) ==
    LET subject == IF beam = 1 THEN "lhcb1" ELSE "lhcb2"
        conjugate == IF beam = 1 THEN "lhcb2" ELSE "lhcb1"
        sign == IF beam = 2 THEN -1 ELSE 1
    IN IF k = 1 THEN [sequence |-> subject, bv |-> sign]
       ELSE [sequence |-> conjugate, bv |-> -sign]

\* C12: for each beam index the loader declares beam parameters for exactly
\* two distinct sequences, first the subject's with the subject's sign (-1
\* for beam 2, +1 otherwise), then the conjugate's with the negated sign.
C12_BothBeamsDeclared ==
    /\ Len(C12_Beams) <= 2
    /\ \A k \in 1..Len(C12_Beams) :
          /\ C12_Beams[k].sequence = C12_Declared(k).sequence
          /\ C12_Beams[k].bv = C12_Declared(k).bv
    /\ lpc \in {"modifiers", "remove_symmetry", "from_madx_sequence", "to_json", "exit",
                "returned"}
         => /\ Len(C12_Beams) = 2
            /\ C12_Beams[1].sequence # C12_Beams[2].sequence
            /\ C12_Beams[1].bv = -C12_Beams[2].bv
            /\ C12_Beams[1].bv \in {-1, 1}

\* the loader got through for beam 4: lhcb2 with +1, then lhcb1 with -1
C12_Witness ==
    /\ beam = 4
    /\ lpc = "returned"
    /\ Len(C12_Beams) = 2
    /\ C12_Beams[1].sequence = "lhcb2" /\ C12_Beams[1].bv = 1
    /\ C12_Beams[2].sequence = "lhcb1" /\ C12_Beams[2].bv = -1

\* C13 as claimed: when create_turn_by_turn_data is called without a line
\* and loads one, it loads it from the artifact of the nominal stage.
C13_LoadsNominal ==
    (last.stage = "create_turn_by_turn_data" /\ loaded_from # NoArtifact)
      => loaded_from = [stage |-> "nominal", beam |-> beam]

\* C14 as claimed: after construction the derived emittance has one entry per
\* transverse plane, x then y, for a single number (taken for both planes) as
\* for an (x, y) pair, so that equal values give the same emittance.
C14_OnePerPlane ==
    pc = "done" =>
      LET x == emittance_norm.x
          y == IF emittance_norm.form = "pair" THEN emittance_norm.y ELSE emittance_norm.x
      IN /\ Len(emittance) = 2
         /\ emittance = << x, y >>

====
